---- MODULE Spec2Model ----
(***************************************************************************)
(* Model of the ScrapeBadger MCP server (src/src/scrapebadger_mcp/server.py) *)
(* The state is the module-level client handle, the process environment,    *)
(* the entry point's position and the call_tool coroutines in flight.       *)
(* call_tool runs on one asyncio event loop: a coroutine runs without       *)
(* interruption between two awaits of the delegated client, so a call is    *)
(* one step up to its delegated call and one step from the client's answer  *)
(* to the returned TextContent list.                                        *)
(***************************************************************************)
EXTENDS Integers, Sequences, FiniteSets, Bags, TLC

VARIABLES
    environ,      \* os.environ, a mapping from variable names to strings
    mainpc,       \* position of the process entry point
    _client,      \* the module global _client (server.py:26)
    constructed,  \* number of ScrapeBadger(...) constructions so far
    key_reads,    \* number of os.environ.get("SCRAPEBADGER_API_KEY") so far
    started,      \* number of call_tool invocations started so far
    tasks,        \* the bag of call_tool coroutines suspended in a delegated call
    returned,     \* what the last finished handler gave back to the server
    validation    \* the last stand-alone construction of an argument model

vars == <<environ, mainpc, _client, constructed, key_reads, started, tasks,
          returned, validation>>

----------------------------------------------------------------------------
(* Bounds of the model *)

MaxTasks == 2

MaxCalls == 2

MaxAvail == 3

----------------------------------------------------------------------------
(* Python values *)

NoneVal == [py |-> "None"]

EmptyDict == [k \in {} |-> 0]

IsNone(v) == v.py = "None"

Min(a, b) == IF a < b THEN a ELSE b

\* the first n elements of s: s[:n]
SliceTo(s, n) == SubSeq(s, 1, Min(Len(s), n))

\* an exception object: class name, the classes it is an instance of, str(e)
Exc(type, bases, msg) == [py |-> "exception", type |-> type, bases |-> bases, msg |-> msg]

ValueErrorOf(msg) == Exc("ValueError", {"ValueError", "Exception", "BaseException"}, msg)

TypeErrorOf(msg) == Exc("TypeError", {"TypeError", "Exception", "BaseException"}, msg)

----------------------------------------------------------------------------
(* Argument models: pydantic BaseModel classes, one set of fields each *)

StrField(n) == [name |-> n, type |-> "str", required |-> TRUE]

IntField(n) == [name |-> n, type |-> "int", required |-> TRUE]

BoundedInt(n, dflt, lo, hi) ==
    [name |-> n, type |-> "int", required |-> FALSE, default |-> dflt, ge |-> lo, le |-> hi]

OptionalStr(n) == [name |-> n, type |-> "str", required |-> FALSE, default |-> NoneVal]

GetUserProfileArgs == {StrField("username")}

GetUserAboutArgs == {StrField("username")}

SearchUsersArgs == {StrField("query"), BoundedInt("max_results", 20, 1, 100)}

GetFollowersArgs == {StrField("username"), BoundedInt("max_results", 50, 1, 200)}

GetFollowingArgs == {StrField("username"), BoundedInt("max_results", 50, 1, 200)}

GetTweetArgs == {StrField("tweet_id")}

GetUserTweetsArgs == {StrField("username"), BoundedInt("max_results", 20, 1, 100)}

SearchTweetsArgs == {StrField("query"), BoundedInt("max_results", 20, 1, 100)}

GetTrendsArgs == {OptionalStr("category")}

GetPlaceTrendsArgs == {IntField("woeid")}

SearchPlacesArgs == {StrField("query")}

GetListDetailArgs == {StrField("list_id")}

\* the list-search model with the upper bound of the tweet models
SearchListsArgsWide == {StrField("query"), BoundedInt("max_results", 20, 1, 100)}

SearchListsArgs == {StrField("query"), BoundedInt("max_results", 20, 1, 50)}

GetListTweetsArgs == {StrField("list_id"), BoundedInt("max_results", 20, 1, 100)}

GetCommunityDetailArgs == {StrField("community_id")}

SearchCommunitiesArgs == {StrField("query")}

FieldNames(model) == {f.name : f \in model}

FieldOf(model, n) == CHOOSE f \in model : f.name = n

HasBounds(f) == "ge" \in DOMAIN f

\* the error details pydantic collects for one declared field
FieldErrors(f, raw) ==
    IF f.name \notin DOMAIN raw
    THEN IF f.required THEN {[loc |-> f.name, type |-> "missing"]} ELSE {}
    ELSE IF ~HasBounds(f) THEN {}
    ELSE IF raw[f.name] < f.ge THEN {[loc |-> f.name, type |-> "greater_than_equal"]}
    ELSE IF raw[f.name] > f.le THEN {[loc |-> f.name, type |-> "less_than_equal"]}
    ELSE {}

ValidationErrorOf(errors) ==
    [py |-> "exception", type |-> "ValidationError",
     bases |-> {"ValidationError", "ValueError", "Exception", "BaseException"},
     msg |-> "validation error",
     errors |-> errors]

\* construction that checks presence only and lets any integer through
ValidateUnbounded(model, raw) ==
    LET errors == {[loc |-> f.name, type |-> "missing"] :
                      f \in {g \in model : g.required /\ g.name \notin DOMAIN raw}}
    IN IF errors # {}
       THEN [ok |-> FALSE, exc |-> ValidationErrorOf(errors)]
       ELSE [ok |-> TRUE,
             args |-> [n \in FieldNames(model) |->
                          IF n \in DOMAIN raw THEN raw[n] ELSE FieldOf(model, n).default]]

\* Model(**raw): the validated record, or the ValidationError raised.
\* Declared fields are validated; keys that are not declared are ignored.
Validate(model, raw) ==
    LET errors == UNION {FieldErrors(f, raw) : f \in model}
    IN IF errors # {}
       THEN [ok |-> FALSE, exc |-> ValidationErrorOf(errors)]
       ELSE [ok |-> TRUE,
             args |-> [n \in FieldNames(model) |->
                          IF n \in DOMAIN raw THEN raw[n] ELSE FieldOf(model, n).default]]

----------------------------------------------------------------------------
(* Credential and client handle *)

ApiKeyName == "SCRAPEBADGER_API_KEY"

\* _get_api_key(): the key, or the ValueError raised when it is unset or empty
_get_api_key(env) ==
    IF ApiKeyName \in DOMAIN env /\ env[ApiKeyName] # ""
    THEN [ok |-> TRUE, api_key |-> env[ApiKeyName]]
    ELSE [ok |-> FALSE,
          exc |-> ValueErrorOf("SCRAPEBADGER_API_KEY environment variable is required. "
                               \o "Get your API key at https://scrapebadger.com")]

\* a handle test that never sees the handle already built
ClientIsUnsetAlways(c) == TRUE

\* the test `_client is None` of _get_client
ClientIsUnset(c) == IsNone(c)

\* ScrapeBadger(api_key=...): the n-th instance built by this process
ScrapeBadger(api_key, n) == [py |-> "ScrapeBadger", api_key |-> api_key, instance |-> n]

\* _get_client(): the handle to use, the new value of the global and what was
\* done on the way (a credential read, a construction), or the ValueError.
\* The coroutine has no await inside, so it runs as one step.
_get_client(c, env, n) ==
    IF ClientIsUnset(c)
    THEN LET k == _get_api_key(env)
         IN IF k.ok
            THEN [ok |-> TRUE, client |-> ScrapeBadger(k.api_key, n + 1),
                  global |-> ScrapeBadger(k.api_key, n + 1), reads |-> 1, built |-> 1]
            ELSE [ok |-> FALSE, exc |-> k.exc, global |-> c, reads |-> 1, built |-> 0]
    ELSE [ok |-> TRUE, client |-> c, global |-> c, reads |-> 0, built |-> 0]

----------------------------------------------------------------------------
(* Serialization and the textual payload *)

\* a Python dict; jsonable says whether json.dumps accepts every value in it
Dict(d) == [py |-> "dict", d |-> d, jsonable |-> TRUE]

\* a record of the delegated client: a pydantic model with a JSON dump
Model(i) == [py |-> "model", dump |-> [id |-> i]]

StrOf(obj) == IF obj.py = "None" THEN "None" ELSE obj.repr

\* _serialize_model(obj)
_serialize_model(obj) ==
    IF obj.py = "model" THEN Dict(obj.dump)
    ELSE IF obj.py = "dict" THEN obj
    ELSE Dict([data |-> StrOf(obj)])

\* truth value of a Python object, as `if result` and `if args.category` use it
Truthy(obj) ==
    CASE obj.py = "None" -> FALSE
      [] obj.py = "str" -> obj.s # ""
      [] obj.py = "dict" -> DOMAIN obj.d # {}
      [] OTHER -> TRUE

\* json.dumps(obj, indent=2): the text, or the TypeError raised
JsonDumps(obj) ==
    IF obj.jsonable
    THEN [ok |-> TRUE, text |-> [json |-> obj.d, indent |-> 2]]
    ELSE [ok |-> FALSE, exc |-> TypeErrorOf("Object is not JSON serializable")]

\* json.loads(text): the mapping the text denotes
JsonLoads(text) == text.json

TextContent(text) == [type |-> "text", text |-> text]

\* how a call_tool invocation ends: a list of TextContent, or an exception
Returns(content) == [kind |-> "returned", response |-> content, raised |-> NoneVal]

Propagates(e) == [kind |-> "raised", response |-> <<>>, raised |-> e]

\* the body both except clauses of call_tool share
ErrorEnvelope(e) ==
    <<TextContent(JsonDumps(Dict([error |-> e.msg, error_type |-> e.type])).text)>>

\* the except clauses without the catch-all
ExceptClausesClientOnly == <<"ScrapeBadgerError">>

\* the exception classes the two except clauses of call_tool name, in order
ExceptClauses == <<"ScrapeBadgerError", "Exception">>

\* try ... except ScrapeBadgerError ... except Exception
HandleException(e) ==
    IF \E i \in DOMAIN ExceptClauses : ExceptClauses[i] \in e.bases
    THEN [Returns(ErrorEnvelope(e)) EXCEPT !.raised = e]
    ELSE Propagates(e)

\* the else branch of the dispatch chain
UnknownToolPayload(name) == Dict([error |-> "Unknown tool: " \o name])

\* "Serialize and return result": the tail of the try block
SerializeAndReturn(result) ==
    LET serialized == IF Truthy(result) THEN _serialize_model(result)
                      ELSE Dict([data |-> NoneVal])
        dumped == JsonDumps(serialized)
    IN IF dumped.ok THEN Returns(<<TextContent(dumped.text)>>)
       ELSE HandleException(dumped.exc)

----------------------------------------------------------------------------
(* The catalog and the dispatch chain *)

Tool(n, model) == [name |-> n, inputSchema |-> [type |-> "object", properties |-> model]]

\* the list list_tools() builds
list_tools ==
    << Tool("get_twitter_user_profile", GetUserProfileArgs),
       Tool("get_twitter_user_about", GetUserAboutArgs),
       Tool("search_twitter_users", SearchUsersArgs),
       Tool("get_twitter_followers", GetFollowersArgs),
       Tool("get_twitter_following", GetFollowingArgs),
       Tool("get_twitter_tweet", GetTweetArgs),
       Tool("get_twitter_user_tweets", GetUserTweetsArgs),
       Tool("search_twitter_tweets", SearchTweetsArgs),
       Tool("get_twitter_trends", GetTrendsArgs),
       Tool("get_twitter_place_trends", GetPlaceTrendsArgs),
       Tool("search_twitter_places", SearchPlacesArgs),
       Tool("get_twitter_list_detail", GetListDetailArgs),
       Tool("search_twitter_lists", SearchListsArgs),
       Tool("get_twitter_list_tweets", GetListTweetsArgs),
       Tool("get_twitter_community_detail", GetCommunityDetailArgs),
       Tool("search_twitter_communities", SearchCommunitiesArgs) >>

\* one branch of the if/elif chain of call_tool: the argument model, the
\* client method awaited, the argument handed to it, how the result is
\* shaped and the key the collected records are stored under
Branch(cls, model, method, arg, shape, key) ==
    [cls |-> cls, model |-> model, method |-> method, arg |-> arg, shape |-> shape, key |-> key]

ToolBranches ==
    [get_twitter_user_profile |->
        Branch("GetUserProfileArgs", GetUserProfileArgs, "twitter.users.get_by_username",
               "username", "single", ""),
     get_twitter_user_about |->
        Branch("GetUserAboutArgs", GetUserAboutArgs, "twitter.users.get_about",
               "username", "single", ""),
     search_twitter_users |->
        Branch("SearchUsersArgs", SearchUsersArgs, "twitter.users.search_all",
               "query", "collect", "users"),
     get_twitter_followers |->
        Branch("GetFollowersArgs", GetFollowersArgs, "twitter.users.get_followers_all",
               "username", "collect", "followers"),
     get_twitter_following |->
        Branch("GetFollowingArgs", GetFollowingArgs, "twitter.users.get_following_all",
               "username", "collect", "following"),
     get_twitter_tweet |->
        Branch("GetTweetArgs", GetTweetArgs, "twitter.tweets.get_by_id",
               "tweet_id", "single", ""),
     get_twitter_user_tweets |->
        Branch("GetUserTweetsArgs", GetUserTweetsArgs, "twitter.tweets.get_user_tweets_all",
               "username", "collect", "tweets"),
     search_twitter_tweets |->
        Branch("SearchTweetsArgs", SearchTweetsArgs, "twitter.tweets.search_all",
               "query", "collect", "tweets"),
     get_twitter_trends |->
        Branch("GetTrendsArgs", GetTrendsArgs, "twitter.trends.get_trends",
               "category", "trends", "trends"),
     get_twitter_place_trends |->
        Branch("GetPlaceTrendsArgs", GetPlaceTrendsArgs, "twitter.trends.get_place_trends",
               "woeid", "serialized", ""),
     search_twitter_places |->
        Branch("SearchPlacesArgs", SearchPlacesArgs, "twitter.geo.search",
               "query", "data", "places"),
     get_twitter_list_detail |->
        Branch("GetListDetailArgs", GetListDetailArgs, "twitter.lists.get_detail",
               "list_id", "single", ""),
     search_twitter_lists |->
        Branch("SearchListsArgs", SearchListsArgs, "twitter.lists.search",
               "query", "sliced", "lists"),
     get_twitter_list_tweets |->
        Branch("GetListTweetsArgs", GetListTweetsArgs, "twitter.lists.get_tweets_all",
               "list_id", "collect", "tweets"),
     get_twitter_community_detail |->
        Branch("GetCommunityDetailArgs", GetCommunityDetailArgs, "twitter.communities.get_detail",
               "community_id", "single", ""),
     search_twitter_communities |->
        Branch("SearchCommunitiesArgs", SearchCommunitiesArgs, "twitter.communities.search",
               "query", "data", "communities")]

\* a Python str object (the optional category is a str or None)
Str(s) == [py |-> "str", s |-> s]

\* str.lower() on the category strings of the model
Lower(s) ==
    CASE s = "NEWS" -> "news"
      [] s = "Sports" -> "sports"
      [] OTHER -> s

TrendCategory(member) == [py |-> "TrendCategory", member |-> member]

\* a lookup that falls back to a category when the key is not in the map
CategoryMapGetNews(key) ==
    CASE key = "news" -> TrendCategory("NEWS")
      [] key = "sports" -> TrendCategory("SPORTS")
      [] key = "entertainment" -> TrendCategory("ENTERTAINMENT")
      [] OTHER -> TrendCategory("NEWS")

\* category_map.get(key): the enum member, or None
CategoryMapGet(key) ==
    CASE key = "news" -> TrendCategory("NEWS")
      [] key = "sports" -> TrendCategory("SPORTS")
      [] key = "entertainment" -> TrendCategory("ENTERTAINMENT")
      [] OTHER -> NoneVal

\* the value given as max_items to a *_all iterator
MaxItemsOf(args) == args.max_results

\* the delegated call a branch makes with its validated arguments
DelegatedCall(b, args) ==
    CASE b.shape = "collect" ->
            [method |-> b.method, arg |-> args[b.arg], kwargs |-> [max_items |-> MaxItemsOf(args)]]
      [] b.shape = "trends" ->
            IF Truthy(args.category)
            THEN [method |-> b.method,
                  kwargs |-> [category |-> CategoryMapGet(Lower(args.category.s))]]
            ELSE [method |-> b.method, kwargs |-> EmptyDict]
      [] OTHER -> [method |-> b.method, arg |-> args[b.arg], kwargs |-> EmptyDict]

----------------------------------------------------------------------------
(* The delegated client, as call_tool sees it *)

\* the first n records the platform holds for a query
Records(n) == [i \in 1..n |-> Model(i)]

\* what a *_all(..., max_items=m) iterator yields when the platform holds
\* avail records: it stops after m items
ItemsYielded(avail, m) == SliceTo(Records(avail), m)

\* the filter get_trends applies: its category argument, None when the call
\* leaves it out (get_trends() is the call for all trends)
CategoryFilter(call) ==
    IF "category" \in DOMAIN call.kwargs THEN call.kwargs.category ELSE NoneVal

\* response.data of get_trends: all trends the platform holds, or the part
\* of them that belongs to the category given
TrendRecords(avail, category) ==
    IF IsNone(category) THEN Records(avail)
    ELSE [i \in 1..(avail \div 2) |-> Model(2 * i)]

\* a dict result the client may hand back that json.dumps rejects
OpaqueDict == [py |-> "dict", d |-> [fetched_at |-> "datetime"], jsonable |-> FALSE]

PlainObject == [py |-> "object", repr |-> "<object>"]

\* what a single-record method may return
SingleResults == {Model(1), NoneVal, OpaqueDict, PlainObject}

\* failures the client may raise: its own categories and an unrelated one
ClientErrors ==
    {Exc("ScrapeBadgerError", {"ScrapeBadgerError", "Exception", "BaseException"},
         "request failed"),
     Exc("RateLimitError", {"RateLimitError", "ScrapeBadgerError", "Exception", "BaseException"},
         "rate limit exceeded"),
     Exc("RuntimeError", {"RuntimeError", "Exception", "BaseException"},
         "connection lost")}

----------------------------------------------------------------------------
(* Shaping the result of a branch *)

\* [_serialize_model(x) for x in items]
SerializeEach(items) == [i \in DOMAIN items |-> _serialize_model(items[i])]

\* a count that is set once and not updated as records are collected
CountOfStale(items) == 0

\* len(items), the value stored under "count"
CountOf(items) == Len(items)

\* {key: items, "count": len(items)}
Listing(key, items) ==
    [py |-> "dict",
     d |-> [k \in {key, "count"} |-> IF k = "count" THEN CountOf(items) ELSE items],
     jsonable |-> \A i \in DOMAIN items : items[i].jsonable]

\* the lists response taken whole, without the slice
ListsDataUntrimmed(data, args) == data

\* lists_response.data[: args.max_results]
ListsData(data, args) == SliceTo(data, args.max_results)

\* the result a branch assigns once the client has answered with `answer`:
\* a record for the single shapes, the sequence of records for the others
BranchResult(b, args, answer) ==
    CASE b.shape = "single" -> answer
      [] b.shape = "serialized" -> _serialize_model(answer)
      [] b.shape = "sliced" -> Listing(b.key, SerializeEach(ListsData(answer, args)))
      [] OTHER -> Listing(b.key, SerializeEach(answer))

\* the answers the client may give to the delegated call of a branch
Answers(b, call) ==
    CASE b.shape \in {"single", "serialized"} -> SingleResults
      [] b.shape = "collect" ->
            {ItemsYielded(avail, call.kwargs.max_items) : avail \in 0..MaxAvail}
      [] b.shape = "trends" ->
            {TrendRecords(avail, CategoryFilter(call)) : avail \in 0..MaxAvail}
      [] OTHER -> {Records(avail) : avail \in 0..MaxAvail}

----------------------------------------------------------------------------
(* Inputs of the model *)

Merge(a, b) == [k \in DOMAIN a \cup DOMAIN b |-> IF k \in DOMAIN a THEN a[k] ELSE b[k]]

\* max_results values given to call_tool
CallMaxResults == {0, 1, 2, 201}

\* max_results values given to the argument models on their own: both sides
\* of every declared bound, and the defaults
ProbeMaxResults == {0, 1, 20, 50, 51, 100, 101, 200, 201}

FieldInputs(f, ints) ==
    IF f.type = "int" THEN (IF f.required THEN {23424977} ELSE ints)
    ELSE IF f.required THEN {"elonmusk"}
    ELSE {NoneVal, Str(""), Str("news"), Str("NEWS"), Str("bogus")}

FieldChoices(f, ints) == {EmptyDict} \cup {[k \in {f.name} |-> v] : v \in FieldInputs(f, ints)}

RECURSIVE RawDicts(_, _)
\* every mapping that gives some of the declared fields a value
RawDicts(fields, ints) ==
    IF fields = {} THEN {EmptyDict}
    ELSE LET f == CHOOSE g \in fields : TRUE
         IN {Merge(a, b) : a \in FieldChoices(f, ints), b \in RawDicts(fields \ {f}, ints)}

UnknownNames == {"not_a_real_tool"}

ToolNameInputs == DOMAIN ToolBranches \cup UnknownNames

ArgumentInputs(name) ==
    IF name \in DOMAIN ToolBranches THEN RawDicts(ToolBranches[name].model, CallMaxResults)
    ELSE {EmptyDict}

Environments ==
    {EmptyDict, [k \in {ApiKeyName} |-> ""], [k \in {ApiKeyName} |-> "sb_live_key"]}

----------------------------------------------------------------------------
(* State machine *)

NoCall == [kind |-> "none"]

NoValidation == [kind |-> "none"]

Init ==
    /\ environ \in Environments
    /\ mainpc = "start"
    /\ _client = NoneVal
    /\ constructed = 0
    /\ key_reads = 0
    /\ started = 0
    /\ tasks = EmptyBag
    /\ returned = NoCall
    /\ validation = NoValidation

\* main(): verify the key, then serve; exit with status 1 when it is missing
Main ==
    /\ mainpc = "start"
    /\ key_reads' = key_reads + 1
    /\ mainpc' = IF _get_api_key(environ).ok THEN "serving" ELSE "exited"
    /\ UNCHANGED <<environ, _client, constructed, started, tasks, returned, validation>>

\* serve(), exported by the package, entered without going through main()
Serve ==
    /\ mainpc = "start"
    /\ mainpc' = "serving"
    /\ UNCHANGED <<environ, _client, constructed, key_reads, started, tasks, returned,
                   validation>>

\* the list_tools handler
ListTools ==
    /\ mainpc # "exited"
    /\ returned' = [kind |-> "listing", tools |-> list_tools]
    /\ UNCHANGED <<environ, mainpc, _client, constructed, key_reads, started, tasks,
                   validation>>

\* the record of a finished call: what was asked, where the call ended, the
\* handle it held, the delegated call it made and what it gave back
Finished(name, arguments, stage, client, call, outcome) ==
    [kind |-> outcome.kind, name |-> name, arguments |-> arguments,
     stage |-> stage, client |-> client, call |-> call,
     response |-> outcome.response, raised |-> outcome.raised]

\* call_tool(name, arguments) from its entry to its first await of the
\* delegated client, or to its return when it does not get that far
CallTool(name, arguments) ==
    /\ mainpc = "serving"
    /\ BagCardinality(tasks) < MaxTasks
    /\ started < MaxCalls
    /\ started' = started + 1
    /\ LET g == _get_client(_client, environ, constructed)
       IN /\ _client' = g.global
          /\ key_reads' = key_reads + g.reads
          /\ constructed' = constructed + g.built
          /\ IF ~g.ok
             THEN /\ returned' = Finished(name, arguments, "get_client", NoneVal, NoneVal,
                                          HandleException(g.exc))
                  /\ UNCHANGED tasks
             ELSE IF name \notin DOMAIN ToolBranches
             THEN /\ returned' = Finished(name, arguments, "unknown_tool", g.client, NoneVal,
                        Returns(<<TextContent(JsonDumps(UnknownToolPayload(name)).text)>>))
                  /\ UNCHANGED tasks
             ELSE LET b == ToolBranches[name]
                      v == Validate(b.model, arguments)
                  IN IF ~v.ok
                     THEN /\ returned' = Finished(name, arguments, "validate", g.client,
                                                  NoneVal, HandleException(v.exc))
                          /\ UNCHANGED tasks
                     ELSE /\ tasks' = tasks (+) SetToBag({
                                 [pc |-> "awaiting", name |-> name, arguments |-> arguments,
                                  args |-> v.args, client |-> g.client,
                                  call |-> DelegatedCall(b, v.args)]})
                          /\ UNCHANGED returned
    /\ UNCHANGED <<environ, mainpc, validation>>

\* the delegated call of coroutine c answers: the branch shapes its result,
\* the tail of the try block serializes it and call_tool returns
ClientReturn(c) ==
    /\ BagIn(c, tasks)
    /\ LET b == ToolBranches[c.name]
       IN \E answer \in Answers(b, c.call) :
            returned' = Finished(c.name, c.arguments, "result", c.client, c.call,
                                 SerializeAndReturn(BranchResult(b, c.args, answer)))
    /\ tasks' = tasks (-) SetToBag({c})
    /\ UNCHANGED <<environ, mainpc, _client, constructed, key_reads, started, validation>>

\* the delegated call of coroutine c raises: an except clause takes over
ClientRaise(c) ==
    /\ BagIn(c, tasks)
    /\ \E e \in ClientErrors :
            returned' = Finished(c.name, c.arguments, "delegate", c.client, c.call,
                                 HandleException(e))
    /\ tasks' = tasks (-) SetToBag({c})
    /\ UNCHANGED <<environ, mainpc, _client, constructed, key_reads, started, validation>>

Next ==
    \/ Main
    \/ Serve
    \/ ListTools
    \/ \E name \in ToolNameInputs : \E arguments \in ArgumentInputs(name) :
          CallTool(name, arguments)
    \/ \E c \in BagToSet(tasks) : ClientReturn(c)
    \/ \E c \in BagToSet(tasks) : ClientRaise(c)

Spec == Init /\ [][Next]_vars

----------------------------------------------------------------------------
(* The argument models on their own *)

ModelClasses == {ToolBranches[n].cls : n \in DOMAIN ToolBranches}

ModelOf(cls) == (CHOOSE n \in DOMAIN ToolBranches : ToolBranches[n].cls = cls)

\* cls(**raw), as the tests construct the argument models
Construct(cls, raw) ==
    /\ validation' = [kind |-> "validation", cls |-> cls, raw |-> raw,
                      outcome |-> Validate(ToolBranches[ModelOf(cls)].model, raw)]
    /\ UNCHANGED <<environ, mainpc, _client, constructed, key_reads, started, tasks,
                   returned>>

NextValidate ==
    \E cls \in ModelClasses :
       \E raw \in RawDicts(ToolBranches[ModelOf(cls)].model, ProbeMaxResults) :
          Construct(cls, raw)

SpecValidate == Init /\ [][NextValidate]_vars

----------------------------------------------------------------------------
(* Properties *)

\* the mapping denoted by the text of the one TextContent a call returned
Payload == JsonLoads(returned.response[1].text)

CallFinished == returned.kind \in {"returned", "raised"}

\* the call ended in its else branch, in an except clause or by raising
CallFailed == CallFinished /\ (returned.stage # "result" \/ ~IsNone(returned.raised))

CallSucceeded == CallFinished /\ returned.kind = "returned" /\ ~CallFailed

ListedNames == {returned.tools[i].name : i \in DOMAIN returned.tools}

\* the tools the catalog surface enumerates
CatalogSurface ==
    {"get_twitter_user_profile", "get_twitter_user_about", "search_twitter_users",
     "get_twitter_followers", "get_twitter_following",
     "get_twitter_tweet", "get_twitter_user_tweets", "search_twitter_tweets",
     "get_twitter_trends", "get_twitter_place_trends",
     "search_twitter_places",
     "get_twitter_list_detail", "search_twitter_lists", "get_twitter_list_tweets",
     "get_twitter_community_detail", "search_twitter_communities"}

\* the collection-fetch tools that accept max_results
MaxResultsTools ==
    {"search_twitter_users", "get_twitter_followers", "get_twitter_following",
     "get_twitter_user_tweets", "search_twitter_tweets", "search_twitter_lists",
     "get_twitter_list_tweets"}

\* every collection-fetch tool
CollectionTools ==
    MaxResultsTools \cup {"get_twitter_trends", "search_twitter_places",
                          "search_twitter_communities"}

\* the max_results a call asked for: the supplied value, else the documented default
RequestedMax ==
    IF "max_results" \in DOMAIN returned.arguments THEN returned.arguments.max_results
    ELSE IF returned.name \in {"get_twitter_followers", "get_twitter_following"} THEN 50
    ELSE 20

\* C1: every call_tool invocation returns exactly one JSON text payload whose
\* top-level keys are exactly {data} or exactly {error, error_type}.
C1_EnvelopeShape ==
    CallFinished =>
        /\ returned.kind = "returned"
        /\ Len(returned.response) = 1
        /\ DOMAIN Payload \in {{"data"}, {"error", "error_type"}}

\* C2: an exception raised while obtaining the client, validating, running
\* the delegated call or serializing the result never leaves call_tool; the
\* call returns one error envelope whose error_type is the class name of the
\* exception and whose error is its message.
C2_ExceptionsBecomeEnvelopes ==
    CallFinished =>
        /\ returned.kind = "returned"
        /\ ~IsNone(returned.raised) =>
              /\ Len(returned.response) = 1
              /\ DOMAIN Payload = {"error", "error_type"}
              /\ Payload.error_type = returned.raised.type
              /\ Payload.error = returned.raised.msg

\* a client failure of a ScrapeBadgerError subclass came back as an envelope
\* labelled with the subclass
C2_Witness ==
    /\ CallFinished
    /\ returned.stage = "delegate"
    /\ returned.raised.type = "RateLimitError"
    /\ Payload.error_type = "RateLimitError"

\* C3: every failure of call_tool yields an error envelope that carries both
\* an error message and an error_type label.
C3_FailureHasErrorAndType ==
    CallFailed =>
        /\ returned.kind = "returned"
        /\ {"error", "error_type"} \subseteq DOMAIN Payload

\* C4: a call whose name is not in the catalog returns the unknown-tool
\* envelope naming the requested name, and neither reads the credential nor
\* constructs the client.
\* (a step that starts a call and suspends none is a call that came back at once)
C4_UnknownToolBeforeClient ==
    [][(/\ started' # started
        /\ tasks' = tasks
        /\ returned'.name \notin {list_tools[i].name : i \in DOMAIN list_tools})
       => /\ returned'.kind = "returned"
          /\ JsonLoads(returned'.response[1].text).error = "Unknown tool: " \o returned'.name
          /\ key_reads' = key_reads
          /\ constructed' = constructed
          /\ _client' = _client]_vars

\* C5: the client is constructed at most once, the handle is never replaced
\* or reset once set, and every call suspended in or back from its delegated
\* call holds the shared handle.
C5_SingleClient ==
    [][/\ constructed' <= 1
       /\ ~IsNone(_client) => _client' = _client
       /\ \A c \in BagToSet(tasks') : c.client = _client'
       /\ (returned'.kind \in {"returned", "raised"} /\ returned'.stage \in {"result", "delegate"})
             => returned'.client = _client']_vars

\* two calls are suspended in their delegated calls on the one handle
C5_Witness ==
    /\ BagCardinality(tasks) = 2
    /\ constructed = 1
    /\ \A c \in BagToSet(tasks) : c.client = _client

\* C6: within one process lifetime the credential is read at most once.
C6_KeyReadAtMostOnce == key_reads <= 1

C8_CountMatchesItems ==
    (CallSucceeded /\ returned.name \in CollectionTools) =>
        /\ "count" \in DOMAIN Payload
        /\ Cardinality(DOMAIN Payload) = 2
        /\ \A k \in DOMAIN Payload \ {"count"} : Payload.count = Len(Payload[k])

\* a collection-fetch tool returned a listing of several records
C8_Witness ==
    /\ CallSucceeded
    /\ returned.name = "get_twitter_trends"
    /\ Payload.count = MaxAvail
    /\ Len(Payload.trends) = MaxAvail

\* the bounds, default and required field the documentation gives each
\* argument model with a max_results field
DocumentedShape ==
    [SearchUsersArgs |-> [lo |-> 1, hi |-> 100, dflt |-> 20, required |-> "query"],
     GetUserTweetsArgs |-> [lo |-> 1, hi |-> 100, dflt |-> 20, required |-> "username"],
     SearchTweetsArgs |-> [lo |-> 1, hi |-> 100, dflt |-> 20, required |-> "query"],
     GetListTweetsArgs |-> [lo |-> 1, hi |-> 100, dflt |-> 20, required |-> "list_id"],
     GetFollowersArgs |-> [lo |-> 1, hi |-> 200, dflt |-> 50, required |-> "username"],
     GetFollowingArgs |-> [lo |-> 1, hi |-> 200, dflt |-> 50, required |-> "username"],
     SearchListsArgs |-> [lo |-> 1, hi |-> 50, dflt |-> 20, required |-> "query"]]

\* C9: validation accepts max_results exactly when it lies within the
\* documented bounds, keeps a supplied value, applies the documented default
\* when the field is absent, and otherwise fails with a validation error
\* naming max_results (out of range) and the required field (missing).
C9_MaxResultsValidation ==
    (validation.kind = "validation" /\ validation.cls \in DOMAIN DocumentedShape) =>
        LET doc == DocumentedShape[validation.cls]
            raw == validation.raw
            out == validation.outcome
            supplied == "max_results" \in DOMAIN raw
            outOfRange == supplied /\ (raw.max_results < doc.lo \/ raw.max_results > doc.hi)
            missing == doc.required \notin DOMAIN raw
        IN /\ out.ok <=> (~outOfRange /\ ~missing)
           /\ out.ok => out.args.max_results = (IF supplied THEN raw.max_results ELSE doc.dflt)
           /\ ~out.ok =>
                 /\ out.exc.type = "ValidationError"
                 /\ {e.loc : e \in out.exc.errors} =
                       (IF outOfRange THEN {"max_results"} ELSE {})
                       \cup (IF missing THEN {doc.required} ELSE {})

\* list search rejected a value just above its upper bound, naming the field
C9_Witness ==
    /\ validation.kind = "validation"
    /\ validation.cls = "SearchListsArgs"
    /\ "max_results" \in DOMAIN validation.raw
    /\ validation.raw.max_results = 51
    /\ ~validation.outcome.ok
    /\ \E e \in validation.outcome.exc.errors : e.loc = "max_results"

\* C10: list_tools returns exactly 17 descriptors with pairwise distinct
\* names, the names of the catalog surface.
C10_SeventeenTools ==
    returned.kind = "listing" =>
        /\ Len(returned.tools) = 17
        /\ Cardinality(ListedNames) = Len(returned.tools)
        /\ ListedNames = CatalogSurface

\* the fields the documentation of each tool requires
DocumentedRequired ==
    [get_twitter_user_profile |-> {"username"},
     get_twitter_user_about |-> {"username"},
     search_twitter_users |-> {"query"},
     get_twitter_followers |-> {"username"},
     get_twitter_following |-> {"username"},
     get_twitter_tweet |-> {"tweet_id"},
     get_twitter_user_tweets |-> {"username"},
     search_twitter_tweets |-> {"query"},
     get_twitter_trends |-> {},
     get_twitter_place_trends |-> {"woeid"},
     search_twitter_places |-> {"query"},
     get_twitter_list_detail |-> {"list_id"},
     search_twitter_lists |-> {"query"},
     get_twitter_list_tweets |-> {"list_id"},
     get_twitter_community_detail |-> {"community_id"},
     search_twitter_communities |-> {"query"}]

\* the documented upper bound of max_results of a tool
DocumentedMax(name) ==
    IF name \in {"get_twitter_followers", "get_twitter_following"} THEN 200
    ELSE IF name = "search_twitter_lists" THEN 50
    ELSE 100

\* the arguments of a known tool do not satisfy its documented shape
InvalidArguments(name, arguments) ==
    \/ ~(DocumentedRequired[name] \subseteq DOMAIN arguments)
    \/ /\ name \in MaxResultsTools
       /\ "max_results" \in DOMAIN arguments
       /\ (arguments.max_results < 1 \/ arguments.max_results > DocumentedMax(name))

\* C11: when argument validation of a known tool fails, the call returns the
\* validation error envelope, no delegated client operation is invoked for it
\* (it is never suspended in one and records none), and the shared handle is
\* the one the call held when validation ran.
C11_ValidationShortCircuits ==
    /\ \A c \in BagToSet(tasks) : ~InvalidArguments(c.name, c.arguments)
    /\ (/\ CallFinished
        /\ returned.name \in DOMAIN DocumentedRequired
        /\ InvalidArguments(returned.name, returned.arguments)
        /\ ~IsNone(returned.client))
       => /\ returned.kind = "returned"
          /\ Payload.error_type = "ValidationError"
          /\ IsNone(returned.call)
          /\ returned.client = _client

\* tweet search with max_results above its bound came back as a validation
\* error while the handle built for the call stayed in place
C11_Witness ==
    /\ CallFinished
    /\ returned.name = "search_twitter_tweets"
    /\ "query" \in DOMAIN returned.arguments
    /\ "max_results" \in DOMAIN returned.arguments
    /\ returned.arguments.max_results = 201
    /\ Payload.error_type = "ValidationError"
    /\ IsNone(returned.call)
    /\ ~IsNone(_client)
    /\ returned.client = _client

\* a category string that is none of news, sports, entertainment in any
\* letter case the inputs use
UnrecognizedCategory(v) ==
    /\ v.py = "str"
    /\ v.s \notin {"news", "NEWS", "News", "sports", "SPORTS", "Sports",
                   "entertainment", "ENTERTAINMENT", "Entertainment"}

\* the arguments of a get_twitter_trends call carry an unrecognized category
TrendsUnrecognized(name, arguments) ==
    /\ name = "get_twitter_trends"
    /\ "category" \in DOMAIN arguments
    /\ UnrecognizedCategory(arguments.category)

\* C12: for get_twitter_trends with a category that matches no recognized
\* one, the trend operation is invoked without a filter, the call is not
\* turned into an error by the category, and once the client answers the
\* result is the success listing of all trends, as for a call with no category.
C12_UnrecognizedCategoryIsAbsent ==
    /\ \A c \in BagToSet(tasks) :
          TrendsUnrecognized(c.name, c.arguments) =>
             /\ c.call.method = "twitter.trends.get_trends"
             /\ \A k \in DOMAIN c.call.kwargs : IsNone(c.call.kwargs[k])
    /\ (/\ CallFinished
        /\ TrendsUnrecognized(returned.name, returned.arguments)
        /\ ~IsNone(returned.client))
       => /\ returned.kind = "returned"
          /\ returned.stage \in {"result", "delegate"}
          /\ \A k \in DOMAIN returned.call.kwargs : IsNone(returned.call.kwargs[k])
          /\ returned.stage = "result" =>
                /\ DOMAIN Payload = {"trends", "count"}
                /\ Payload.count = Len(Payload.trends)
                /\ \A i \in DOMAIN Payload.trends : Payload.trends[i].d.id = i

\* a trends call with an unknown category returned the listing of all trends
C12_Witness ==
    /\ CallSucceeded
    /\ returned.name = "get_twitter_trends"
    /\ "category" \in DOMAIN returned.arguments
    /\ returned.arguments.category.py = "str"
    /\ returned.arguments.category.s = "bogus"
    /\ Payload.count = MaxAvail
    /\ \A i \in DOMAIN Payload.trends : Payload.trends[i].d.id = i

====
